---- MODULE Spec2Model ----
(***************************************************************************)
(* CHIP-8 interpreter core of the repository, as it appears in its three   *)
(* copies:                                                                 *)
(*   "emuchi"     src/emuchi-8.py                 class Chip8              *)
(*   "gbaclassic" src/samsoftgbaclassicemuv0.py   class Chip8              *)
(*   "samsoftv0"  src/samsoftv0.x.x.py            class Chip8Core, reached *)
(*                through GBACore and the Qt window's key/timer handlers   *)
(* A byte string (the memory bytearray, a ROM) is kept as its length and   *)
(* its non-zero bytes: [len |-> n, nz |-> [address |-> byte]]; every byte  *)
(* at an address below len that nz does not list is 0.  The display is     *)
(* kept as the set of <<row, column>> whose pixel is 1.  The lists V,      *)
(* stack and keys are functions on 0..15.                                  *)
(***************************************************************************)
EXTENDS Integers, Sequences, FiniteSets, TLC

VARIABLES core, memory, display, state, draw_flag, cycle_counter, last,
          driver

vars ==
  <<core, memory, display, state, draw_flag, cycle_counter, last, driver>>

(* ------------------------------ constants ------------------------------ *)

WIDTH == 64
HEIGHT == 32
MEM_SIZE == 4096
\* 0x200
START_ADDR == 512
\* 0x50
FONT_ADDR == 80
\* waiting_for_key_reg = None
NoReg == -1

Cores == {"emuchi", "gbaclassic", "samsoftv0"}

\* the two copies of class Chip8 (emuchi-8.py, samsoftgbaclassicemuv0.py)
IsChip8(c) == c \in {"emuchi", "gbaclassic"}

FONT_SET ==
  << 240, 144, 144, 144, 240,    32,  96,  32,  32, 112,
     240,  16, 240, 128, 240,   240,  16, 240,  16, 240,
     144, 144, 240,  16,  16,   240, 128, 240,  16, 240,
     240, 128, 240, 144, 240,   240,  16,  32,  64,  64,
     240, 144, 240, 144, 240,   240, 144, 240,  16, 240,
     240, 144, 240, 144, 144,   224, 144, 224, 144, 224,
     240, 128, 128, 128, 240,   224, 144, 144, 144, 224,
     240, 128, 240, 128, 240,   240, 128, 240, 128, 128 >>

(* ------------------------------- bounds -------------------------------- *)

\* instructions explored after a reset (caps the unbounded _cycle_counter)
MaxCycles == 33

(* --------------------------- integer helpers --------------------------- *)

\* v & 0xFF
Mask8(v) == v % 256

\* v & 0xFFF
Mask12_wide(v) == v
Mask12(v) == v % 4096

\* v & 0xF
Mask4(v) == v % 16

Pow2(i) == CASE i = 0 -> 1 [] i = 1 -> 2 [] i = 2 -> 4 [] i = 3 -> 8
             [] i = 4 -> 16 [] i = 5 -> 32 [] i = 6 -> 64 [] i = 7 -> 128
             [] i = 8 -> 256

\* (v >> i) & 1
Bit(v, i) == (v \div Pow2(i)) % 2

\* a bitwise operation on two bytes, bit by bit
BitFold(op, a, b) ==
  LET R(i) == LET x == Bit(a, i)
                  y == Bit(b, i)
              IN Pow2(i) * (CASE op = "or"  -> IF x + y > 0 THEN 1 ELSE 0
                              [] op = "and" -> x * y
                              [] op = "xor" -> (x + y) % 2)
  IN R(0) + R(1) + R(2) + R(3) + R(4) + R(5) + R(6) + R(7)
\* a | b, a & b, a ^ b on bytes
BitOr(a, b)  == BitFold("or", a, b)
BitAnd(a, b) == BitFold("and", a, b)
BitXor(a, b) == BitFold("xor", a, b)

(* ------------------------------ the machine ---------------------------- *)

\* the byte string of a list of byte values
FromBytes(seq) ==
  [len |-> Len(seq),
   nz |-> [a \in {i - 1 : i \in {j \in 1..Len(seq) : seq[j] # 0}} |->
             seq[a + 1]]]

\* b"\x00" * n
ZeroBytes(n) == [len |-> n, nz |-> <<>>]

\* len(mem)
ByteLen(mem) == mem.len

\* mem[a]  (0 <= a < len(mem))
Mem(mem, a) == IF a \in DOMAIN mem.nz THEN mem.nz[a] ELSE 0

\* mem[a] = b  (0 <= a < len(mem))
MemSet(mem, a, b) ==
  [len |-> mem.len,
   nz |-> IF b = 0
          THEN [x \in DOMAIN mem.nz \ {a} |-> mem.nz[x]]
          ELSE (a :> b) @@ mem.nz]

\* memory right after reset(): memory[:] = b"\x00" * MEM_SIZE, then
\* for i, b in enumerate(FONT_SET): memory[FONT_ADDR + i] = b
\* (no byte of FONT_SET is 0)
ResetMemory ==
  [len |-> MEM_SIZE,
   nz |-> [a \in FONT_ADDR..(FONT_ADDR + Len(FONT_SET) - 1) |->
             FONT_SET[a - FONT_ADDR + 1]]]

\* display[py][px]
Pixel(d, py, px) == IF <<py, px>> \in d THEN 1 ELSE 0

\* display[py][px] = v
PixelSet(d, py, px, v) ==
  IF v = 0 THEN d \ {<<py, px>>} ELSE d \cup {<<py, px>>}

BlankDisplay == {}

\* Chip8State(...) as constructed in __init__ and reset
FreshState ==
  [V |-> [i \in 0..15 |-> 0], I |-> 0, pc |-> START_ADDR, sp |-> 0,
   stack |-> [i \in 0..15 |-> 0], delay_timer |-> 0, sound_timer |-> 0,
   keys |-> [i \in 0..15 |-> FALSE], waiting_for_key_reg |-> NoReg]

\* the whole machine as one value
chip == [memory |-> memory, display |-> display, state |-> state,
         draw_flag |-> draw_flag, cycle_counter |-> cycle_counter]

\* Chip8.reset (emuchi, gbaclassic): everything is rebuilt
reset_chip8(c) ==
  [memory |-> ResetMemory, display |-> BlankDisplay, state |-> FreshState,
   draw_flag |-> TRUE, cycle_counter |-> 0]

\* Chip8Core.reset (samsoftv0): memory, display, pc and draw_flag only; the
\* Chip8State object is kept, so V, I, sp, stack, timers, keys and a pending
\* key wait survive.  (The instruction count of the model restarts.)
reset_core(c) ==
  [memory |-> ResetMemory, display |-> BlankDisplay,
   state |-> [c.state EXCEPT !.pc = 512],
   draw_flag |-> TRUE, cycle_counter |-> 0]

reset(k, c) == IF IsChip8(k) THEN reset_chip8(c) ELSE reset_core(c)

\* Python slice assignment  mem[a : a + len(data)] = data  on a bytearray:
\* the slice is clipped to len(mem) and replaced by all of data
SliceAssign(mem, a, data) ==
  LET hi == IF a + data.len < mem.len THEN a + data.len ELSE mem.len
      shift == a + data.len - hi
      before == {x \in DOMAIN mem.nz : x < a}
      middle == {a + x : x \in DOMAIN data.nz}
      after == {x + shift : x \in {z \in DOMAIN mem.nz : z >= hi}}
  IN [len |-> a + data.len + (mem.len - hi),
      nz |-> [x \in before \cup middle \cup after |->
                IF x < a THEN mem.nz[x]
                ELSE IF x < a + data.len THEN data.nz[x - a]
                ELSE mem.nz[x - shift]]]

\* len(data) > MEM_SIZE - START_ADDR
RomTooLarge_off(n) == n > MEM_SIZE - START_ADDR + 1
RomTooLarge(n) == n > MEM_SIZE - START_ADDR

\* Chip8.load_rom_bytes: result and the exception raised ("" for none)
load_rom_bytes(c, data) ==
  IF RomTooLarge(ByteLen(data))
  THEN [chip |-> c, exc |-> "ValueError"]
  ELSE [chip |-> [reset_chip8(c) EXCEPT
                    !.memory = SliceAssign(@, START_ADDR, data)],
        exc |-> ""]

\* Chip8Core.load_rom: no size check of its own
load_rom_core(c, data) ==
  [reset_core(c) EXCEPT !.memory = SliceAssign(@, START_ADDR, data)]

\* GBACore.load_rom: reset, then hand the ROM to the CHIP-8 core when it is
\* shorter than 4096 bytes
gba_load_rom(c, data) ==
  [chip |-> IF ByteLen(data) < 4096 THEN load_rom_core(reset_core(c), data)
            ELSE reset_core(c),
   exc |-> ""]

load_rom(k, c, data) ==
  IF IsChip8(k) THEN load_rom_bytes(c, data) ELSE gba_load_rom(c, data)

\* the latch of press_key / keyPressEvent on a pending Fx0A
LatchKey_keep(st, key) ==
  IF st.waiting_for_key_reg # NoReg
  THEN [st EXCEPT !.V[st.waiting_for_key_reg] = Mask8(key)]
  ELSE st
LatchKey(st, key) ==
  IF st.waiting_for_key_reg # NoReg
  THEN [st EXCEPT !.V[st.waiting_for_key_reg] = Mask8(key),
                  !.waiting_for_key_reg = NoReg]
  ELSE st

\* Chip8.press_key, latching only on the edge from up to down
press_key_chip8_edge(st, key, pressed) ==
  IF 0 <= key /\ key <= 15
  THEN LET s1 == [st EXCEPT !.keys[key] = pressed]
       IN IF pressed /\ ~st.keys[key] THEN LatchKey(s1, key) ELSE s1
  ELSE st

\* Chip8.press_key
press_key_chip8(st, key, pressed) ==
  IF 0 <= key /\ key <= 15
  THEN LET s1 == [st EXCEPT !.keys[key] = pressed]
       IN IF pressed THEN LatchKey(s1, key) ELSE s1
  ELSE st

\* keyPressEvent / keyReleaseEvent of the samsoftv0 window (CHIP-8 part)
press_key_core(st, key, pressed) ==
  IF key <= 15
  THEN LET s1 == [st EXCEPT !.keys[key] = pressed]
       IN IF pressed THEN LatchKey(s1, key) ELSE s1
  ELSE st

press_key(k, st, key, pressed) ==
  IF IsChip8(k) THEN press_key_chip8(st, key, pressed)
  ELSE press_key_core(st, key, pressed)

\* one timer of tick_timers:  if t > 0: t -= 1
TimerDown_free(t) == t - 1
TimerDown(t) == IF t > 0 THEN t - 1 ELSE t

\* Chip8.tick_timers; the same two statements inline in _emulation_step
tick_timers(st) ==
  [st EXCEPT !.delay_timer = TimerDown(@), !.sound_timer = TimerDown(@)]

(* ------------------------------ sprite drawing ------------------------- *)

\* old ^ 1
Toggle_set(old) == 1
Toggle(old) == (old + 1) % 2

\* body of the inner loop of Chip8._draw_sprite: leftmost pixel is bit 7
draw_bit_nowrap(acc, sprite, x, py, bit) ==
  LET px == x + (7 - bit)
      old == Pixel(acc.display, py, px)
      new == Toggle(old)
  IN IF Bit(sprite, bit) = 1
     THEN [display |-> PixelSet(acc.display, py, px, new),
           collision |-> IF old = 1 /\ new = 0 THEN 1 ELSE acc.collision]
     ELSE acc
draw_bit_lit(acc, sprite, x, py, bit) ==
  LET px == (x + (7 - bit)) % WIDTH
      old == Pixel(acc.display, py, px)
      new == Toggle(old)
  IN IF Bit(sprite, bit) = 1
     THEN [display |-> PixelSet(acc.display, py, px, new),
           collision |-> IF old = 0 /\ new = 1 THEN 1 ELSE acc.collision]
     ELSE acc
draw_bit(acc, sprite, x, py, bit) ==
  LET px == (x + (7 - bit)) % WIDTH
      old == Pixel(acc.display, py, px)
      new == Toggle(old)
  IN IF Bit(sprite, bit) = 1
     THEN [display |-> PixelSet(acc.display, py, px, new),
           collision |-> IF old = 1 /\ new = 0 THEN 1 ELSE acc.collision]
     ELSE acc

\* for bit in range(8), from bit on; each pass is completed before the next
RECURSIVE draw_bits(_, _, _, _, _)
draw_bits(acc, sprite, x, py, bit) ==
  IF bit >= 8 THEN acc
  ELSE LET done == draw_bit(acc, sprite, x, py, bit)
       IN IF done = done THEN draw_bits(done, sprite, x, py, bit + 1)
          ELSE done

\* body of the outer loop of Chip8._draw_sprite
draw_row(acc, mem, I, x, y, row) ==
  LET sprite == Mem(mem, Mask12(I + row))
      py == (y + row) % HEIGHT
  IN draw_bits(acc, sprite, x, py, 0)

\* for row in range(n), from row on
RECURSIVE draw_rows(_, _, _, _, _, _, _)
draw_rows(acc, mem, I, x, y, row, n) ==
  IF row >= n THEN acc
  ELSE LET done == draw_row(acc, mem, I, x, y, row)
       IN IF done = done THEN draw_rows(done, mem, I, x, y, row + 1, n)
          ELSE done

\* Chip8._draw_sprite(x, y, n): the new display and the collision result
draw_sprite(c, x, y, n) ==
  draw_rows([display |-> c.display, collision |-> 0],
            c.memory, c.state.I, x, y, 0, n)

\* body of the inner loop of Dxyn in Chip8Core._execute_opcode: bits are
\* taken from the left, mask 0x80 >> bit; acc.collision is V[0xF]
core_draw_bit(acc, sprite, vx, py, bit) ==
  LET px == (vx + bit) % 64
      old == Pixel(acc.display, py, px)
  IN IF Bit(sprite, 7 - bit) = 1
     THEN [display |-> PixelSet(acc.display, py, px, Toggle(old)),
           collision |-> IF old # 0 THEN 1 ELSE acc.collision]
     ELSE acc

\* for bit in range(8), from bit on
RECURSIVE core_draw_bits(_, _, _, _, _)
core_draw_bits(acc, sprite, vx, py, bit) ==
  IF bit >= 8 THEN acc
  ELSE LET done == core_draw_bit(acc, sprite, vx, py, bit)
       IN IF done = done THEN core_draw_bits(done, sprite, vx, py, bit + 1)
          ELSE done

\* body of the outer loop of Dxyn in Chip8Core._execute_opcode
core_draw_row(acc, mem, I, vx, vy, row) ==
  LET sprite == Mem(mem, Mask12(I + row))
      py == (vy + row) % 32
  IN core_draw_bits(acc, sprite, vx, py, 0)

\* for row in range(n), from row on
RECURSIVE core_draw_rows(_, _, _, _, _, _, _)
core_draw_rows(acc, mem, I, vx, vy, row, n) ==
  IF row >= n THEN acc
  ELSE LET done == core_draw_row(acc, mem, I, vx, vy, row)
       IN IF done = done THEN core_draw_rows(done, mem, I, vx, vy, row + 1, n)
          ELSE done

\* Dxyn of Chip8Core._execute_opcode: V[0xF] = 0, then for row in range(n)
core_draw(c, vx, vy, n) ==
  core_draw_rows([display |-> c.display, collision |-> 0],
                 c.memory, c.state.I, vx, vy, 0, n)

(* --------------------------------- BCD --------------------------------- *)

\* A Python number: an int, or a float kept exactly in hundredths.
PyInt(n) == [float |-> FALSE, h |-> 100 * n]
PyFloat(h) == [float |-> TRUE, h |-> h]

\* Chip8._bcd of emuchi-8.py: integer division
bcd_floor(value) ==
  LET v == Mask8(value)
  IN <<PyInt(v \div 100), PyInt((v \div 10) % 10), PyInt(v % 10)>>

\* Chip8._bcd of samsoftgbaclassicemuv0.py: true division, so the first two
\* results are floats (v / 100 and (v / 10) % 10); v % 10 stays an int
bcd_true(value) ==
  LET v == Mask8(value)
  IN <<PyFloat(v), PyFloat((10 * v) % 1000), PyInt(v % 10)>>

bcd(k, value) == IF k = "gbaclassic" THEN bcd_true(value) ELSE bcd_floor(value)

\* int(b): truncation toward zero (b >= 0 here)
PyToInt(b) == b.h \div 100

(* --------------------------- Chip8.cycle: opcodes ---------------------- *)

Ok(c) == [chip |-> c, exc |-> ""]
Raise(c, e) == [chip |-> c, exc |-> e]

\* self.state.pc = (self.state.pc + 2) & 0xFFF
SkipNext(c) == [c EXCEPT !.state.pc = Mask12(@ + 2)]

\* 0x0000 family: 00E0, 00EE, other 0nnn ignored
exec_0_late(c, opcode) ==
  IF opcode = 224
  THEN [c EXCEPT !.display = BlankDisplay, !.draw_flag = TRUE]
  ELSE IF opcode = 238
  THEN [c EXCEPT !.state.sp = Mask4(c.state.sp - 1),
                 !.state.pc = c.state.stack[c.state.sp]]
  ELSE c
exec_0_quiet(c, opcode) ==
  IF opcode = 224
  THEN [c EXCEPT !.display = BlankDisplay]
  ELSE IF opcode = 238
  THEN LET sp1 == Mask4(c.state.sp - 1)
       IN [c EXCEPT !.state.sp = sp1, !.state.pc = c.state.stack[sp1]]
  ELSE c
exec_0(c, opcode) ==
  IF opcode = 224
  THEN [c EXCEPT !.display = BlankDisplay, !.draw_flag = TRUE]
  ELSE IF opcode = 238
  THEN LET sp1 == Mask4(c.state.sp - 1)
       IN [c EXCEPT !.state.sp = sp1, !.state.pc = c.state.stack[sp1]]
  ELSE c

\* 2nnn: CALL
exec_2_grow(c, nnn) ==
  [c EXCEPT !.state.stack[c.state.sp] = c.state.pc,
            !.state.sp = @ + 1,
            !.state.pc = nnn]
exec_2(c, nnn) ==
  [c EXCEPT !.state.stack[c.state.sp] = c.state.pc,
            !.state.sp = Mask4(@ + 1),
            !.state.pc = nnn]

\* 7xkk: ADD Vx, byte
exec_7(V, x, kk) == [V EXCEPT ![x] = Mask8(V[x] + kk)]

\* V[0xF] = flag, the first of the two statements of 8xy4..8xyE; the
\* second statement reads V after the first
SetFlag_none(V, flag) == V
SetFlag(V, flag) == [V EXCEPT ![15] = flag]

\* the two statements of 8xy5 (a = x, b = y) and 8xy7 (a = y, b = x), with
\* both operands read before the flag is written
op_sub_early(V, x, a, b) ==
  [SetFlag(V, IF V[a] >= V[b] THEN 1 ELSE 0) EXCEPT ![x] = Mask8(V[a] - V[b])]

\* the two statements of 8xy5 (a = x, b = y) and 8xy7 (a = y, b = x):
\*   V[0xF] = 1 if V[a] >= V[b] else 0
\*   V[x] = (V[a] - V[b]) & 0xFF
op_sub(V, x, a, b) ==
  LET W == SetFlag(V, IF V[a] >= V[b] THEN 1 ELSE 0)
  IN [W EXCEPT ![x] = Mask8(W[a] - W[b])]

\* 8xy* family of Chip8.cycle
exec_8(V, x, y, last4) ==
  CASE last4 = 0 -> [V EXCEPT ![x] = V[y]]
    [] last4 = 1 -> [V EXCEPT ![x] = BitOr(V[x], V[y])]
    [] last4 = 2 -> [V EXCEPT ![x] = BitAnd(V[x], V[y])]
    [] last4 = 3 -> [V EXCEPT ![x] = BitXor(V[x], V[y])]
    [] last4 = 4 -> LET total == V[x] + V[y]
                        W == SetFlag(V, IF total > 255 THEN 1 ELSE 0)
                    IN [W EXCEPT ![x] = Mask8(total)]
    [] last4 = 5 -> op_sub(V, x, x, y)
    [] last4 = 6 -> LET W == SetFlag(V, V[x] % 2)
                    IN [W EXCEPT ![x] = Mask8(W[x] \div 2)]
    [] last4 = 7 -> op_sub(V, x, y, x)
    [] last4 = 14 -> LET W == SetFlag(V, Bit(V[x], 7))
                     IN [W EXCEPT ![x] = Mask8(W[x] * 2)]
    [] OTHER -> V

\* Dxyn of Chip8.cycle
exec_D(c, x, y, n) ==
  LET vx == Mask8(c.state.V[x])
      vy == Mask8(c.state.V[y])
      r == draw_sprite(c, vx, vy, n)
  IN [c EXCEPT !.display = r.display, !.draw_flag = TRUE,
               !.state.V[15] = r.collision]

\* Ex9E / ExA1
exec_E_loose(c, x, kk) ==
  LET key == Mask4(c.state.V[x])
  IN IF kk = 158
     THEN (IF c.state.keys[key] THEN SkipNext(c) ELSE c)
     ELSE (IF ~c.state.keys[key] THEN SkipNext(c) ELSE c)
exec_E(c, x, kk) ==
  LET key == Mask4(c.state.V[x])
  IN IF kk = 158
     THEN (IF c.state.keys[key] THEN SkipNext(c) ELSE c)
     ELSE IF kk = 161
     THEN (IF ~c.state.keys[key] THEN SkipNext(c) ELSE c)
     ELSE c

\* Fx07: LD Vx, DT
op_Fx07(st, x) == [st EXCEPT !.V[x] = Mask8(st.delay_timer)]

\* Fx33: three stores; a float operand makes the first store raise TypeError
\* (bytearray items must be integers) before anything is written
op_Fx33(k, c, x) ==
  LET b == bcd(k, c.state.V[x])
      I == c.state.I
      \* emuchi-8.py wraps each digit in int(); samsoftgbaclassicemuv0.py
      \* stores the value as returned
      conv(v) == IF k = "emuchi" THEN PyInt(PyToInt(v)) ELSE v
      b2 == conv(b[1])
      b1 == conv(b[2])
      b0 == conv(b[3])
  IN IF b2.float THEN Raise(c, "TypeError")
     ELSE LET m1 == MemSet(c.memory, I, PyToInt(b2))
          IN IF b1.float THEN Raise([c EXCEPT !.memory = m1], "TypeError")
             ELSE LET m2 == MemSet(m1, Mask12(I + 1), PyToInt(b1))
                  IN IF b0.float
                     THEN Raise([c EXCEPT !.memory = m2], "TypeError")
                     ELSE Ok([c EXCEPT !.memory =
                                MemSet(m2, Mask12(I + 2), PyToInt(b0))])

\* Fx55: for i in range(x + 1): memory[(I + i) & 0xFFF] = V[i] & 0xFF
RECURSIVE store_from(_, _, _, _, _)
store_from(mem, V, I, i, x) ==
  IF i > x THEN mem
  ELSE LET done == MemSet(mem, Mask12(I + i), Mask8(V[i]))
       IN IF done = done THEN store_from(done, V, I, i + 1, x) ELSE done

store_regs(mem, V, I, x) == store_from(mem, V, I, 0, x)

\* Fx65: for i in range(x + 1): V[i] = memory[(I + i) & 0xFFF] & 0xFF
load_from_all(V, mem, I, i, x) ==
  [j \in 0..15 |-> Mask8(Mem(mem, Mask12(I + j)))]
RECURSIVE load_from(_, _, _, _, _)
load_from(V, mem, I, i, x) ==
  IF i > x THEN V
  ELSE LET done == [V EXCEPT ![i] = Mask8(Mem(mem, Mask12(I + i)))]
       IN IF done = done THEN load_from(done, mem, I, i + 1, x) ELSE done

load_regs(V, mem, I, x) == load_from(V, mem, I, 0, x)

\* 0xF000 family of Chip8.cycle
exec_F(k, c, x, kk) ==
  LET st == c.state
      V == st.V
  IN CASE kk = 7 -> Ok([c EXCEPT !.state = op_Fx07(st, x)])
       [] kk = 10 -> Ok([c EXCEPT !.state.waiting_for_key_reg = x])
       [] kk = 21 -> Ok([c EXCEPT !.state.delay_timer = Mask8(V[x])])
       [] kk = 24 -> Ok([c EXCEPT !.state.sound_timer = Mask8(V[x])])
       [] kk = 30 -> LET total == st.I + V[x]
                     IN Ok([c EXCEPT
                              !.state.V[15] = IF total > 4095 THEN 1 ELSE 0,
                              !.state.I = Mask12(total)])
       [] kk = 41 -> Ok([c EXCEPT !.state.I =
                           Mask12(FONT_ADDR + Mask4(V[x]) * 5)])
       [] kk = 51 -> op_Fx33(k, c, x)
       [] kk = 85 -> Ok([c EXCEPT
                           !.memory = store_regs(@, V, st.I, x),
                           !.state.I = Mask12(st.I + x + 1)])
       [] kk = 101 -> Ok([c EXCEPT
                            !.state.V = load_regs(V, c.memory, st.I, x),
                            !.state.I = Mask12(st.I + x + 1)])
       [] OTHER -> Ok(c)

\* dispatch of Chip8.cycle on the high nibble; rnd is random.getrandbits(8)
execute(k, c, opcode, rnd) ==
  LET nnn == opcode % 4096
      n == opcode % 16
      x == (opcode \div 256) % 16
      y == (opcode \div 16) % 16
      kk == opcode % 256
      op_high == opcode \div 4096
      V == c.state.V
  IN CASE op_high = 0 -> Ok(exec_0(c, opcode))
       [] op_high = 1 -> Ok([c EXCEPT !.state.pc = nnn])
       [] op_high = 2 -> Ok(exec_2(c, nnn))
       [] op_high = 3 -> Ok(IF V[x] = kk THEN SkipNext(c) ELSE c)
       [] op_high = 4 -> Ok(IF V[x] # kk THEN SkipNext(c) ELSE c)
       [] op_high = 5 -> Ok(IF n = 0 /\ V[x] = V[y] THEN SkipNext(c) ELSE c)
       [] op_high = 6 -> Ok([c EXCEPT !.state.V[x] = kk])
       [] op_high = 7 -> Ok([c EXCEPT !.state.V = exec_7(V, x, kk)])
       [] op_high = 8 -> Ok([c EXCEPT !.state.V = exec_8(V, x, y, n)])
       [] op_high = 9 -> Ok(IF n = 0 /\ V[x] # V[y] THEN SkipNext(c) ELSE c)
       [] op_high = 10 -> Ok([c EXCEPT !.state.I = nnn])
       [] op_high = 11 -> Ok([c EXCEPT !.state.pc = Mask12(nnn + V[0])])
       [] op_high = 12 -> Ok([c EXCEPT !.state.V[x] = BitAnd(rnd, kk)])
       [] op_high = 13 -> Ok(exec_D(c, x, y, n))
       [] op_high = 14 -> Ok(exec_E(c, x, kk))
       [] op_high = 15 -> exec_F(k, c, x, kk)

\* if self.state.waiting_for_key_reg is not None: return
Stalled_never(st) == FALSE
Stalled_low(st) == st.waiting_for_key_reg > 0
Stalled(st) == st.waiting_for_key_reg # NoReg

\* Chip8.cycle (emuchi, gbaclassic).  memory[pc + 1] is read unmasked: at
\* pc = len(memory) - 1 the read raises IndexError before anything changes.
cycle_chip8(k, c, rnd) ==
  IF Stalled(c.state) THEN Ok(c)
  ELSE LET pc == c.state.pc
       IN IF pc + 1 >= ByteLen(c.memory) THEN Raise(c, "IndexError")
          ELSE LET opcode == Mem(c.memory, pc) * 256 + Mem(c.memory, pc + 1)
                   c1 == [c EXCEPT !.state.pc = Mask12(pc + 2),
                                   !.cycle_counter = @ + 1]
               IN execute(k, c1, opcode, rnd)

(* ------------------- Chip8Core.cycle / _execute_opcode ------------------ *)

\* 8xy0..8xy5 of Chip8Core._execute_opcode (no 8xy6, 8xy7, 8xyE)
core_exec_8(V, x, y, n) ==
  CASE n = 0 -> [V EXCEPT ![x] = V[y]]
    [] n = 1 -> [V EXCEPT ![x] = BitOr(V[x], V[y])]
    [] n = 2 -> [V EXCEPT ![x] = BitAnd(V[x], V[y])]
    [] n = 3 -> [V EXCEPT ![x] = BitXor(V[x], V[y])]
    [] n = 4 -> LET t == V[x] + V[y]
                    W == SetFlag(V, IF t > 255 THEN 1 ELSE 0)
                IN [W EXCEPT ![x] = Mask8(t)]
    [] n = 5 -> LET W == SetFlag(V, IF V[x] >= V[y] THEN 1 ELSE 0)
                IN [W EXCEPT ![x] = Mask8(W[x] - W[y])]
    [] OTHER -> V

\* Dxyn of Chip8Core._execute_opcode: V[0xF] = 0 first, then the loops
core_exec_D(c, x, y, n) ==
  LET r == core_draw(c, c.state.V[x], c.state.V[y], n)
  IN [c EXCEPT !.display = r.display, !.draw_flag = TRUE,
               !.state.V[15] = r.collision]

\* 0xF000 family of Chip8Core._execute_opcode: Fx07, Fx0A, Fx15, Fx18, Fx29
core_exec_F(c, x, kk) ==
  LET st == c.state
  IN CASE kk = 7 -> [c EXCEPT !.state.V[x] = st.delay_timer]
       [] kk = 10 -> [c EXCEPT !.state.waiting_for_key_reg = x]
       [] kk = 21 -> [c EXCEPT !.state.delay_timer = st.V[x]]
       [] kk = 24 -> [c EXCEPT !.state.sound_timer = st.V[x]]
       [] kk = 41 -> [c EXCEPT !.state.I = 80 + Mask4(st.V[x]) * 5]
       [] OTHER -> c

\* Chip8Core._execute_opcode; rnd is random.randint(0, 255)
core_execute(c, op, rnd) ==
  LET nnn == op % 4096
      n == op % 16
      x == (op \div 256) % 16
      y == (op \div 16) % 16
      kk == op % 256
      hi == op \div 4096
      V == c.state.V
  IN CASE hi = 0 -> exec_0(c, op)
       [] hi = 1 -> [c EXCEPT !.state.pc = nnn]
       [] hi = 2 -> exec_2(c, nnn)
       [] hi = 3 -> IF V[x] = kk THEN SkipNext(c) ELSE c
       [] hi = 4 -> IF V[x] # kk THEN SkipNext(c) ELSE c
       [] hi = 6 -> [c EXCEPT !.state.V[x] = kk]
       [] hi = 7 -> [c EXCEPT !.state.V = exec_7(V, x, kk)]
       [] hi = 8 -> [c EXCEPT !.state.V = core_exec_8(V, x, y, n)]
       [] hi = 10 -> [c EXCEPT !.state.I = nnn]
       [] hi = 12 -> [c EXCEPT !.state.V[x] = BitAnd(rnd, kk)]
       [] hi = 13 -> core_exec_D(c, x, y, n)
       [] hi = 14 -> exec_E(c, x, kk)
       [] hi = 15 -> core_exec_F(c, x, kk)
       [] OTHER -> c

\* Chip8Core.cycle (samsoftv0); Chip8Core has no _cycle_counter, the model
\* counts the instructions since the last reset to bound the exploration
cycle_core(c, rnd) ==
  IF Stalled(c.state) THEN Ok(c)
  ELSE LET pc == c.state.pc
       IN IF pc + 1 >= ByteLen(c.memory) THEN Raise(c, "IndexError")
          ELSE LET op == Mem(c.memory, pc) * 256 + Mem(c.memory, pc + 1)
                   c1 == [c EXCEPT !.state.pc = Mask12(pc + 2),
                                   !.cycle_counter = @ + 1]
               IN Ok(core_execute(c1, op, rnd))

\* one instruction of the front-end's core
cycle_ticking(k, c, rnd) ==
  LET res == IF IsChip8(k) THEN cycle_chip8(k, c, rnd) ELSE cycle_core(c, rnd)
  IN [res EXCEPT !.chip.state = tick_timers(@)]
cycle(k, c, rnd) ==
  IF IsChip8(k) THEN cycle_chip8(k, c, rnd) ELSE cycle_core(c, rnd)

(* ------------------------------- inputs -------------------------------- *)

\* the opcode with hex digits a b c d
Op(a, b, c, d) == a * 4096 + b * 256 + c * 16 + d

\* big-endian bytes of a list of opcodes
OpBytes(ops) ==
  [i \in 1..(2 * Len(ops)) |->
     IF i % 2 = 1 THEN ops[(i + 1) \div 2] \div 256 ELSE ops[i \div 2] % 256]

Zeros(n) == [i \in 1..n |-> 0]

\* timers, a sprite, a call, a key wait and a return
ProgMain ==
  << Op(6,10,0,2),    \* 200: V[A] = 2
     Op(15,10,1,5),   \* 202: delay_timer = V[A]
     Op(15,10,1,8),   \* 204: sound_timer = V[A]
     Op(10,0,5,0),    \* 206: I = 0x050 (glyph 0)
     Op(13,1,2,5),    \* 208: draw 5 rows at (V1, V2)
     Op(2,2,0,14),    \* 20A: call 0x20E
     Op(1,2,0,12),    \* 20C: jump 0x20C
     Op(15,3,0,10),   \* 20E: wait for a key into V3
     Op(0,0,14,14) >> \* 210: return

\* byte and address wraparound, BCD, and a jump to the last byte of memory
ProgEdge ==
  << Op(6,1,15,15),   \* 200: V1 = 0xFF
     Op(7,1,0,2),     \* 202: V1 = (V1 + 2) & 0xFF
     Op(10,15,15,15), \* 204: I = 0xFFF
     Op(15,1,1,14),   \* 206: I = (I + V1) & 0xFFF, V[F] = carry
     Op(15,1,3,3),    \* 208: BCD of V1 at I
     Op(1,15,15,15) >>  \* 20A: jump 0xFFF

\* a ROM that fills memory to its last byte: jump to 0xFFE, where its last
\* two bytes are 6B01 (V[B] = 1), after which pc wraps to 0
RomFull ==
  LET head == OpBytes(<<Op(1,15,15,14)>>)
      tail == OpBytes(<<Op(6,11,0,1)>>)
  IN head \o Zeros(MEM_SIZE - START_ADDR - Len(head) - Len(tail)) \o tail

\* the same without the call: registers, timers, a sprite and a key wait
ProgWait ==
  << Op(6,10,0,2),    \* 200: V[A] = 2
     Op(15,10,1,5),   \* 202: delay_timer = V[A]
     Op(15,10,1,8),   \* 204: sound_timer = V[A]
     Op(10,0,5,0),    \* 206: I = 0x050 (glyph 0)
     Op(13,1,2,5),    \* 208: draw 5 rows at (V1, V2)
     Op(15,3,0,10),   \* 20A: wait for a key into V3
     Op(1,2,0,12) >>  \* 20C: jump 0x20C

\* one byte more than fits (3585 bytes): a jump to 0xFFF, and the same
\* jump again in its last two bytes, which would lie at 0xFFF and 0x1000
RomOver ==
  LET jp == OpBytes(<<Op(1,15,15,15)>>)
  IN jp \o Zeros(MEM_SIZE - START_ADDR + 1 - 2 * Len(jp)) \o jp

\* as long as the whole memory (4096 bytes)
RomHuge == OpBytes(ProgMain) \o Zeros(MEM_SIZE - 2 * Len(ProgMain))

\* the ROM files tried on the two Chip8 front-ends
RomsChip8 ==
  << FromBytes(OpBytes(ProgMain)), FromBytes(OpBytes(ProgEdge)),
     FromBytes(RomFull), FromBytes(RomOver), FromBytes(RomHuge) >>

\* the ROM files tried on the samsoftv0 front-end, whose reset keeps the
\* registers: programs without calls, so the kept state stays small
RomsCore ==
  << FromBytes(OpBytes(ProgWait)), FromBytes(RomOver), FromBytes(RomHuge) >>

RomsOf(k) == IF IsChip8(k) THEN RomsChip8 ELSE RomsCore

\* key indices delivered by the front-ends (0..15), and one outside
KeyInputs == {7, 16}

\* values of the random byte of Cxkk
RandBytes == {0, 165, 255}

\* a random byte is drawn only when the instruction at pc is Cxkk
RandFor(c) ==
  IF Mem(c.memory, c.state.pc) \div 16 = 12 THEN RandBytes ELSE {0}

(* --------------------- the accumulator of the drivers ------------------ *)

\* A Python float (IEEE 754 double) in 0..64 that is a multiple of 2^-52:
\* its integer part, and its fraction as four base-8192 digits (52 bits),
\* most significant first.
Limb == 8192

\* the exponent of a double with integer part n in 1..63
Exponent(n) ==
  IF n >= 32 THEN 5 ELSE IF n >= 16 THEN 4 ELSE IF n >= 8 THEN 3
  ELSE IF n >= 4 THEN 2 ELSE IF n >= 2 THEN 1 ELSE 0

\* 0.0
FloatZero == [int |-> 0, frac |-> <<0, 0, 0, 0>>]

\* x + u * 2^-52 for 0 <= u < 8192, carries propagated
AddUnits(x, u) ==
  LET s4 == x.frac[4] + u
      s3 == x.frac[3] + s4 \div Limb
      s2 == x.frac[2] + s3 \div Limb
      s1 == x.frac[1] + s2 \div Limb
  IN [int |-> x.int + s1 \div Limb,
      frac |-> <<s1 % Limb, s2 % Limb, s3 % Limb, s4 % Limb>>]

\* the exact sum of two such values
AddExact(x, y) ==
  LET s4 == x.frac[4] + y.frac[4]
      s3 == x.frac[3] + y.frac[3] + s4 \div Limb
      s2 == x.frac[2] + y.frac[2] + s3 \div Limb
      s1 == x.frac[1] + y.frac[1] + s2 \div Limb
  IN [int |-> x.int + y.int + s1 \div Limb,
      frac |-> <<s1 % Limb, s2 % Limb, s3 % Limb, s4 % Limb>>]

\* rounding to 53 significant bits, to nearest, ties to even: x is exact to
\* 2^-52, low is what lies below 2^-52 in units of 2^-65, sticky tells
\* whether anything lies below that
RoundDouble(x, low, sticky) ==
  LET e == Exponent(x.int)
      ulp == Pow2(e)
      rest == (x.frac[4] % ulp) * Limb + low
      half == (ulp * Limb) \div 2
      kept == [x EXCEPT !.frac[4] = @ - (@ % ulp)]
      odd == (x.frac[4] \div ulp) % 2 = 1
      up == \/ rest > half
            \/ rest = half /\ (sticky \/ odd)
  IN IF up THEN AddUnits(kept, ulp) ELSE kept

\* cycles_per_second / 60.0 for an integer or integral float
\* cycles_per_second in 60..3000, correctly rounded
FloatDiv60(cps) ==
  LET r0 == cps % 60
      f1 == (r0 * Limb) \div 60   r1 == (r0 * Limb) % 60
      f2 == (r1 * Limb) \div 60   r2 == (r1 * Limb) % 60
      f3 == (r2 * Limb) \div 60   r3 == (r2 * Limb) % 60
      f4 == (r3 * Limb) \div 60   r4 == (r3 * Limb) % 60
      f5 == (r4 * Limb) \div 60   r5 == (r4 * Limb) % 60
  IN RoundDouble([int |-> cps \div 60, frac |-> <<f1, f2, f3, f4>>],
                 f5, r5 # 0)

\* a + b in floating point (the sum is at least 1)
FloatAdd(a, b) == RoundDouble(AddExact(a, b), 0, FALSE)

\* self._cycle_accum += cycles_per_second / 60.0; ncycles = int(accum);
\* self._cycle_accum -= ncycles (exact: the fraction of a double is a double)
Accumulate(accum, cps) ==
  LET sum == FloatAdd(accum, FloatDiv60(cps))
  IN [ncycles |-> sum.int, accum |-> [sum EXCEPT !.int = 0]]

(* ------------------------------- actions ------------------------------- *)

\* what the last operation was and how it ended; waited records whether a
\* key wait was pending when it was called.  calls lists the calls still
\* open (the address of each 2nnn and sp before it), followed over single
\* cycle() operations and forgotten when the program is reset or run in
\* bulk.
Last(op, key, pressed, rom, exc) ==
  [op |-> op, key |-> key, pressed |-> pressed, rom |-> rom, exc |-> exc,
   waited |-> Stalled(state),
   calls |-> IF op \in {"press_key", "tick_timers", "present"}
             THEN last.calls ELSE << >>]

\* the open calls after a cycle() of the machine c that ended with exc
OpenCalls(calls, c, exc) ==
  LET pc == c.state.pc
      opcode == Mem(c.memory, pc) * 256 + Mem(c.memory, pc + 1)
  IN IF Stalled(c.state) \/ pc + 1 >= ByteLen(c.memory) \/ exc # ""
     THEN calls
     ELSE IF opcode \div 4096 = 2
     THEN Append(calls, [a |-> pc, sp |-> c.state.sp])
     ELSE IF opcode = 238 /\ calls # << >>
     THEN SubSeq(calls, 1, Len(calls) - 1)
     ELSE calls

SetChip(c) ==
  /\ memory' = c.memory
  /\ display' = c.display
  /\ state' = c.state
  /\ draw_flag' = c.draw_flag
  /\ cycle_counter' = c.cycle_counter

\* the window after __init__: paused, 700 cycles per second (emuchi,
\* gbaclassic); paused, speed 1.0, no turbo (samsoftv0, whose
\* speed_multiplier is kept here in hundredths).  ticks, steps and
\* timer_ticks belong to the model: the running ticks so far, and the
\* cycle() calls and timer decrements issued by the last tick; so does
\* issued, the cycles granted so far by the accounting taken alone
\* (AccumTick).  shown belongs to the model as well: the display contents
\* that the window drew last (an empty canvas at first).
FreshDriver ==
  [running |-> FALSE, cycles_per_second |-> 700, cycle_accum |-> FloatZero,
   speed_multiplier |-> 100, turbo |-> FALSE,
   ticks |-> 0, steps |-> 0, timer_ticks |-> 0, issued |-> 0,
   shown |-> BlankDisplay]

\* _update_display (emuchi), _rebuild_image (gbaclassic), display.refresh
\* (samsoftv0): the window now shows the display disp
Redrawn(d, disp) == [d EXCEPT !.shown = disp]

\* if draw_flag: draw_flag = False; redraw  (the end of a tick of emuchi,
\* DisplayWidget.refresh_if_needed of gbaclassic)
RefreshIfNeeded(d, flag, disp) == IF flag THEN Redrawn(d, disp) ELSE d

Init ==
  /\ core \in Cores
  /\ memory = ResetMemory
  /\ display = BlankDisplay
  /\ state = FreshState
  /\ draw_flag = TRUE
  /\ cycle_counter = 0
  /\ last = [op |-> "init", key |-> 0, pressed |-> FALSE, rom |-> 0,
             exc |-> "", waited |-> FALSE, calls |-> << >>]
  /\ driver = FreshDriver

Reset ==
  /\ SetChip(reset(core, chip))
  /\ last' = Last("reset", 0, FALSE, 0, "")
  /\ UNCHANGED <<core, driver>>

LoadRom ==
  \E r \in DOMAIN RomsOf(core) :
    LET res == load_rom(core, chip, RomsOf(core)[r])
    IN /\ SetChip(res.chip)
       /\ last' = Last("load_rom", 0, FALSE, r, res.exc)
       /\ UNCHANGED <<core, driver>>

PressKey ==
  \E key \in KeyInputs, pressed \in BOOLEAN :
    /\ state' = press_key(core, state, key, pressed)
    /\ last' = Last("press_key", key, pressed, 0, "")
    /\ UNCHANGED <<core, memory, display, draw_flag, cycle_counter, driver>>

Cycle ==
  /\ cycle_counter < MaxCycles
  /\ \E rnd \in RandFor(chip) :
       LET res == cycle(core, chip, rnd)
       IN /\ SetChip(res.chip)
          /\ last' = [Last("cycle", 0, FALSE, 0, res.exc) EXCEPT
                        !.calls = OpenCalls(last.calls, chip, res.exc)]
  /\ UNCHANGED <<core, driver>>

TickTimers ==
  /\ state' = tick_timers(state)
  /\ last' = Last("tick_timers", 0, FALSE, 0, "")
  /\ UNCHANGED <<core, memory, display, draw_flag, cycle_counter, driver>>

Next == Reset \/ LoadRom \/ PressKey \/ Cycle \/ TickTimers

Spec == Init /\ [][Next]_vars

(* ------------------- programs that exercise instructions ---------------- *)

\* a ROM image: the program, padded with zeros up to 0x210, then data bytes
ProgWithData(ops, data) ==
  LET code == OpBytes(ops)
  IN FromBytes(code \o Zeros(16 - Len(code)) \o data)

\* sprite rows kept at 0x210
SpriteData == <<255, 129, 0, 60, 1>>

\* V1 = a, V2 = b, I = 0x210, a first sprite of m rows at (V3, V4) = (0, 0),
\* then the same Dxyn twice
DrawTwice(a, b, m, n) ==
  ProgWithData(<< Op(6,1,a \div 16,a % 16),   \* 200: V1 = a
                  Op(6,2,b \div 16,b % 16),   \* 202: V2 = b
                  Op(10,2,1,0),               \* 204: I = 0x210
                  Op(13,3,4,m),               \* 206: draw m rows at (0, 0)
                  Op(13,1,2,n),               \* 208: draw n rows at (V1, V2)
                  Op(13,1,2,n),               \* 20A: the same again
                  Op(15,0,0,10) >>,           \* 20C: wait for a key
               SpriteData)

DrawRoms ==
  {DrawTwice(a, b, m, n) : a \in {0, 3, 63}, b \in {0, 1, 31},
                           m \in {0, 4}, n \in {0, 1, 4, 15}}

\* V1 = a, V2 = b, then 812n and 71kk with kk = b
Arith(a, b, n) ==
  ProgWithData(<< Op(6,1,a \div 16,a % 16),   \* 200: V1 = a
                  Op(6,2,b \div 16,b % 16),   \* 202: V2 = b
                  Op(8,1,2,n),                \* 204: 8xyn on V1, V2
                  Op(7,1,b \div 16,b % 16),   \* 206: V1 = (V1 + b) & 0xFF
                  Op(15,0,0,10) >>,           \* 208: wait for a key
               << >>)

ArithRoms ==
  {Arith(a, b, n) : a \in {0, 1, 3, 128, 255}, b \in {0, 1, 3, 128, 255},
                    n \in {4, 5, 6, 7, 14}}

\* V1 = a, I = nnn, then the BCD of V1 at I
Bcd(a, nnn) ==
  ProgWithData(<< Op(6,1,a \div 16,a % 16),   \* 200: V1 = a
                  Op(10, nnn \div 256, (nnn \div 16) % 16, nnn % 16),
                                              \* 202: I = nnn
                  Op(15,1,3,3),               \* 204: BCD of V1 at I
                  Op(15,0,0,10) >>,           \* 206: wait for a key
               << >>)

BcdRoms == {Bcd(a, nnn) : a \in {0, 7, 99, 128, 255}, nnn \in {80, 768, 4095}}

\* V0 = a, V1 = b, V3 = 9; V0..V1 stored at nnn, overwritten, and loaded
\* back from nnn
StoreLoad(a, b, nnn) ==
  LET setI == Op(10, nnn \div 256, (nnn \div 16) % 16, nnn % 16)
  IN ProgWithData(<< Op(6,0,a \div 16,a % 16),   \* 200: V0 = a
                     Op(6,1,b \div 16,b % 16),   \* 202: V1 = b
                     Op(6,3,0,9),                \* 204: V3 = 9
                     setI,                       \* 206: I = nnn
                     Op(15,1,5,5),               \* 208: store V0..V1 at I
                     Op(6,0,10,10),              \* 20A: V0 = 0xAA
                     Op(6,1,5,5),                \* 20C: V1 = 0x55
                     setI,                       \* 20E: I = nnn
                     Op(15,1,6,5),               \* 210: load V0..V1 from I
                     Op(15,0,0,10) >>,           \* 212: wait for a key
                  << >>)

StoreLoadRoms ==
  {StoreLoad(a, b, nnn) : a \in {0, 7, 255}, b \in {1, 255},
                          nnn \in {80, 768, 4095}}

\* a call at 0x200 to a call that calls itself: the return address 0x202 is
\* pushed once and 0x206 ever after
CallChain ==
  ProgWithData(<< Op(2,2,0,4),      \* 200: call 0x204
                  Op(0,0,14,14),    \* 202: return
                  Op(2,2,0,4) >>,   \* 204: call 0x204
               << >>)

\* a return as the first instruction, with the stack pointer at 0
ReturnFirst ==
  ProgWithData(<< Op(0,0,14,14),    \* 200: return
                  Op(15,0,0,10) >>, \* 202: wait for a key
               << >>)

\* sixteen subroutines, each calling the next and returning, and a
\* seventeenth that only returns: the calls nest sixteen deep
NestedCalls ==
  ProgWithData(
    [j \in 1..33 |->
       IF j = 33 THEN Op(0,0,14,14)             \* 240: return
       ELSE IF j % 2 = 1 THEN 8192 + 512 + 2 * (j + 1)
                                                \* 200 + 4i: call 204 + 4i
       ELSE IF j = 2 THEN Op(15,0,0,10)         \* 202: wait for a key
       ELSE Op(0,0,14,14)],                     \* 206 + 4i: return
    << >>)

StackRoms == {CallChain, ReturnFirst, NestedCalls}

\* opcodes outside the instruction table
UndefinedOps ==
  { Op(0,0,0,0), Op(0,1,2,3), Op(0,0,14,1), Op(0,0,14,15),
    Op(8,1,2,8), Op(8,1,2,13), Op(8,1,2,15),
    Op(5,1,2,1), Op(5,1,2,15), Op(9,1,3,1),
    Op(14,1,9,15), Op(14,1,10,2), Op(14,1,0,0),
    Op(15,1,0,0), Op(15,1,3,4), Op(15,1,5,4), Op(15,1,15,15) }

\* V1 = V2 = 3, V3 = 4, I = 0x300, then the opcode
Undefined(op) ==
  ProgWithData(<< Op(6,1,0,3),      \* 200: V1 = 3
                  Op(6,2,0,3),      \* 202: V2 = 3
                  Op(6,3,0,4),      \* 204: V3 = 4
                  Op(10,3,0,0),     \* 206: I = 0x300
                  op,               \* 208
                  Op(15,0,0,10) >>, \* 20A: wait for a key
               << >>)

\* a ROM that fills memory: a jump to 0xFFE, where its last two bytes are
\* the opcode
UndefinedAtEnd(op) ==
  [len |-> MEM_SIZE - START_ADDR,
   nz |-> [a \in {b \in {0, 1, 3582, 3583} :
                    (CASE b = 0 -> 31 [] b = 1 -> 254
                       [] b = 3582 -> op \div 256 [] OTHER -> op % 256) # 0}
             |-> CASE a = 0 -> 31 [] a = 1 -> 254
                   [] a = 3582 -> op \div 256 [] OTHER -> op % 256]]

UndefinedRoms ==
  {Undefined(op) : op \in UndefinedOps}
    \cup {UndefinedAtEnd(op) : op \in {Op(0,1,2,3), Op(8,1,2,8), Op(15,1,3,4)}}

\* V[x] = a, V[y] = b, then 8xy5 or 8xy7 (n) with x or y the flag register
SubFlag(x, y, a, b, n) ==
  ProgWithData(<< Op(6,x,a \div 16,a % 16),   \* 200: V[x] = a
                  Op(6,y,b \div 16,b % 16),   \* 202: V[y] = b
                  Op(8,x,y,n),                \* 204: 8xyn
                  Op(15,0,0,10) >>,           \* 206: wait for a key
               << >>)

SubFlagRoms ==
  {SubFlag(r[1], r[2], a, b, n) :
     r \in {<<1, 15>>, <<15, 2>>, <<15, 15>>},
     a \in {0, 1, 3, 255}, b \in {0, 1, 3, 255}, n \in {5, 7}}

OpRoms ==
  DrawRoms \cup ArithRoms \cup BcdRoms \cup StoreLoadRoms \cup StackRoms
    \cup UndefinedRoms \cup SubFlagRoms

\* a ROM file is opened once, on the machine as constructed
LoadOp ==
  /\ last.op = "init"
  /\ \E rom \in OpRoms :
       LET res == load_rom(core, chip, rom)
       IN /\ SetChip(res.chip)
          /\ last' = Last("load_rom", 0, FALSE, 0, res.exc)
  /\ UNCHANGED <<core, driver>>

\* the presentation loop consumes draw_flag:
\*   if self.chip8.draw_flag: self.chip8.draw_flag = False; redraw
Present ==
  /\ draw_flag
  /\ draw_flag' = FALSE
  /\ driver' = RefreshIfNeeded(driver, draw_flag, display)
  /\ last' = Last("present", 0, FALSE, 0, "")
  /\ UNCHANGED <<core, memory, display, state, cycle_counter>>

NextOps == LoadOp \/ Cycle \/ Present

SpecOps == Init /\ [][NextOps]_vars

(* ------------------------------ the drivers ---------------------------- *)

\* running ticks explored
MaxTicks == 3

\* single steps are explored while fewer instructions than this have run
MaxSteps == 12

\* int(700 / 60), the cycles of one frame of _emulation_step
cycles_per_frame == 11

\* timers set to 3, then a loop
ProgLoop ==
  << Op(6,10,0,3),    \* 200: V[A] = 3
     Op(15,10,1,5),   \* 202: delay_timer = V[A]
     Op(15,10,1,8),   \* 204: sound_timer = V[A]
     Op(1,2,0,6) >>   \* 206: jump 0x206

\* a glyph drawn, a key wait, then the screen cleared and the glyph drawn
\* where the key says
ProgDraw ==
  << Op(10,0,5,0),    \* 200: I = 0x050 (glyph 0)
     Op(13,0,0,5),    \* 202: draw 5 rows at (V0, V0)
     Op(15,0,0,10),   \* 204: wait for a key into V0
     Op(0,0,14,0),    \* 206: clear the screen
     Op(13,0,0,5),    \* 208: draw 5 rows at (V0, V0)
     Op(1,2,0,10) >>  \* 20A: jump 0x20A

\* the ROM files opened in the windows (no Cxkk in them: the cycles of a
\* tick draw no random byte)
DriverRoms ==
  {FromBytes(OpBytes(ProgLoop)), FromBytes(OpBytes(ProgWait)),
   FromBytes(OpBytes(ProgEdge)), FromBytes(OpBytes(ProgDraw))}

\* values of the speed spin box (60..3000) of emuchi and gbaclassic
SpeedBox == {60, 100, 700}

\* the entries of the Speed menu of samsoftv0, in hundredths
SpeedMenu == {50, 100, 200, 400}

\* for _ in range(n): cycle(); an exception ends the loop.  steps counts
\* the calls made.  (The set constructor binds the result of each call
\* before the next call is made.)
RECURSIVE run_cycles(_, _, _, _)
run_cycles(k, c, n, steps) ==
  IF n <= 0 THEN [chip |-> c, exc |-> "", steps |-> steps]
  ELSE CHOOSE out \in
         { IF r.exc = ""
           THEN run_cycles(k, r.chip, m, s)
           ELSE [chip |-> r.chip, exc |-> r.exc, steps |-> s]
           : r \in {cycle(k, c, 0)}, m \in {n - 1}, s \in {steps + 1} } : TRUE

\* for _ in range(frames): eleven cycles, then both timers down
RECURSIVE run_frames(_, _, _, _)
run_frames(c, frames, steps, timer_ticks) ==
  IF frames <= 0
  THEN [chip |-> c, exc |-> "", steps |-> steps, timer_ticks |-> timer_ticks]
  ELSE CHOOSE out \in
         { IF r.exc = ""
           THEN CHOOSE o \in
                  { run_frames(ticked, m, r.steps, t)
                    : ticked \in {[r.chip EXCEPT !.state = tick_timers(@)]} }
                  : TRUE
           ELSE [chip |-> r.chip, exc |-> r.exc, steps |-> r.steps,
                 timer_ticks |-> timer_ticks]
           : r \in {run_cycles("samsoftv0", c, cycles_per_frame, steps)},
             m \in {frames - 1}, t \in {timer_ticks + 1} } : TRUE

\* _load_rom_file (emuchi), action_open_rom (gbaclassic), load_rom
\* (samsoftv0): a ROM that loads starts the emulation, a failure is reported
OpenRom ==
  \E rom \in DriverRoms :
    LET res == load_rom(core, chip, rom)
    IN /\ SetChip(res.chip)
       /\ driver' = IF res.exc = ""
                    THEN [driver EXCEPT !.running = TRUE]
                    ELSE driver
       /\ last' = Last("load_rom", 0, FALSE, 0, res.exc)
       /\ UNCHANGED core

\* action_toggle_pause / toggle_pause; gbaclassic takes the checked state
TogglePause ==
  \E checked \in BOOLEAN :
    /\ driver' = [driver EXCEPT
                    !.running = IF core = "gbaclassic" THEN checked ELSE ~@]
    /\ last' = Last("toggle_pause", 0, checked, 0, "")
    /\ UNCHANGED <<core, memory, display, state, draw_flag, cycle_counter>>

\* _update_speed (emuchi), _set_speed_from_box (gbaclassic)
UpdateSpeed ==
  /\ IsChip8(core)
  /\ \E cps \in SpeedBox :
       driver' = [driver EXCEPT !.cycles_per_second = cps]
  /\ last' = Last("update_speed", 0, FALSE, 0, "")
  /\ UNCHANGED <<core, memory, display, state, draw_flag, cycle_counter>>

\* set_speed and toggle_turbo of samsoftv0
SetSpeed ==
  /\ ~IsChip8(core)
  /\ \E multiplier \in SpeedMenu :
       driver' = [driver EXCEPT !.speed_multiplier = multiplier]
  /\ last' = Last("set_speed", 0, FALSE, 0, "")
  /\ UNCHANGED <<core, memory, display, state, draw_flag, cycle_counter>>

ToggleTurbo ==
  /\ ~IsChip8(core)
  /\ driver' = [driver EXCEPT !.turbo = ~@]
  /\ last' = Last("toggle_turbo", 0, FALSE, 0, "")
  /\ UNCHANGED <<core, memory, display, state, draw_flag, cycle_counter>>

\* _tick_60hz of emuchi and gbaclassic: when running, the cycles of the tick
\* and then tick_timers; the display is repainted and draw_flag cleared.  An
\* exception of cycle() leaves the handler at once.
Tick60Hz ==
  /\ IsChip8(core)
  /\ driver.ticks < MaxTicks
  /\ IF driver.running
     THEN \E acc \in {Accumulate(driver.cycle_accum,
                                  driver.cycles_per_second)} :
          \E res \in {run_cycles(core, chip, acc.ncycles, 0)} :
          \E ok \in {res.exc = ""} :
             /\ SetChip([res.chip EXCEPT
                           !.state = IF ok THEN tick_timers(@) ELSE @,
                           !.draw_flag = IF ok THEN FALSE ELSE @])
             /\ driver' =
                  [(IF ok
                    THEN RefreshIfNeeded(driver, res.chip.draw_flag,
                                         res.chip.display)
                    ELSE driver)
                   EXCEPT !.cycle_accum = acc.accum,
                          !.ticks = @ + 1,
                          !.steps = res.steps,
                          !.timer_ticks = IF ok THEN 1 ELSE 0]
             /\ last' = Last("tick", 0, FALSE, 0, res.exc)
     ELSE /\ draw_flag' = FALSE
          /\ driver' = [RefreshIfNeeded(driver, draw_flag, display)
                        EXCEPT !.steps = 0, !.timer_ticks = 0]
          /\ last' = Last("tick", 0, FALSE, 0, "")
          /\ UNCHANGED <<memory, display, state, cycle_counter>>
  /\ UNCHANGED core

\* _emulation_step of samsoftv0: nothing when paused; otherwise
\* int(speed_multiplier) frames, four times as many with turbo
EmulationStep ==
  /\ ~IsChip8(core)
  /\ driver.ticks < MaxTicks
  /\ IF driver.running
     THEN \E frames \in {(driver.speed_multiplier \div 100)
                            * (IF driver.turbo THEN 4 ELSE 1)} :
          \E res \in {run_frames(chip, frames, 0, 0)} :
             /\ SetChip(res.chip)
             /\ driver' =
                  [(IF res.exc = "" THEN Redrawn(driver, res.chip.display)
                    ELSE driver)
                   EXCEPT !.ticks = @ + 1,
                          !.steps = res.steps,
                          !.timer_ticks = res.timer_ticks]
             /\ last' = Last("tick", 0, FALSE, 0, res.exc)
     ELSE /\ driver' = [driver EXCEPT !.steps = 0, !.timer_ticks = 0]
          /\ last' = Last("tick", 0, FALSE, 0, "")
          /\ UNCHANGED <<memory, display, state, draw_flag, cycle_counter>>
  /\ UNCHANGED core

\* self.chip8.cycle() of action_step
single_step_twice(k, c) ==
  CHOOSE out \in
    { IF r.exc = "" THEN cycle(k, r.chip, 0) ELSE r : r \in {cycle(k, c, 0)} }
    : TRUE
single_step(k, c) == cycle(k, c, 0)

\* action_step (emuchi, gbaclassic): one cycle(), then the redraw; emuchi
\* forces it with draw_flag = True and leaves the flag set.  An exception
\* of cycle() leaves the handler at once.
ActionStep ==
  /\ IsChip8(core)
  /\ cycle_counter < MaxSteps
  /\ \E res \in {single_step(core, chip)} :
     \E ok \in {res.exc = ""} :
       /\ SetChip([res.chip EXCEPT
                     !.draw_flag = IF ok THEN core = "emuchi" ELSE @])
       /\ driver' = IF ~ok THEN driver
                    ELSE IF core = "emuchi"
                    THEN Redrawn(driver, res.chip.display)
                    ELSE RefreshIfNeeded(driver, res.chip.draw_flag,
                                         res.chip.display)
       /\ last' = Last("step", 0, FALSE, 0, res.exc)
  /\ UNCHANGED core

\* action_reset (emuchi: reset, redraw; gbaclassic: reset,
\* refresh_if_needed) and reset_emulation (samsoftv0: reset only)
ActionReset ==
  /\ \E c \in {reset(core, chip)} :
       /\ SetChip([c EXCEPT
                     !.draw_flag = IF core = "gbaclassic" THEN FALSE ELSE @])
       /\ driver' = IF core = "emuchi" THEN Redrawn(driver, c.display)
                    ELSE IF core = "gbaclassic"
                    THEN RefreshIfNeeded(driver, c.draw_flag, c.display)
                    ELSE driver
  /\ last' = Last("reset", 0, FALSE, 0, "")
  /\ UNCHANGED core

NextDriver ==
  \/ OpenRom
  \/ TogglePause
  \/ UpdateSpeed
  \/ SetSpeed
  \/ ToggleTurbo
  \/ Tick60Hz
  \/ EmulationStep

SpecDriver == Init /\ [][NextDriver]_vars

\* the windows at their default speed, with the keyboard, the single step
\* and the reset
NextWindow ==
  \/ OpenRom
  \/ TogglePause
  \/ PressKey
  \/ ActionStep
  \/ ActionReset
  \/ Tick60Hz
  \/ EmulationStep

SpecWindow == Init /\ [][NextWindow]_vars

(* ----------------- the cycle accounting of _tick_60hz alone ------------ *)

\* running ticks of the accounting explored
MaxAccumTicks == 60

\* speeds kept constant over a run
AccumSpeeds == {60, 80, 90, 100, 700, 1000, 3000}

\* the window after a speed was chosen and the emulation resumed, before
\* the first running tick
InitAccum ==
  /\ core \in {"emuchi", "gbaclassic"}
  /\ memory = ResetMemory
  /\ display = BlankDisplay
  /\ state = FreshState
  /\ draw_flag = TRUE
  /\ cycle_counter = 0
  /\ last = Last("update_speed", 0, FALSE, 0, "")
  /\ \E cps \in AccumSpeeds :
       driver = [FreshDriver EXCEPT !.running = TRUE,
                                    !.cycles_per_second = cps]

\* the first three statements of a running _tick_60hz: the accumulator and
\* the number of cycles it grants
AccumTick ==
  /\ driver.running
  /\ driver.ticks < MaxAccumTicks
  /\ \E acc \in {Accumulate(driver.cycle_accum, driver.cycles_per_second)} :
       driver' = [driver EXCEPT !.cycle_accum = acc.accum,
                                !.ticks = @ + 1,
                                !.steps = acc.ncycles,
                                !.issued = @ + acc.ncycles]
  /\ last' = Last("tick", 0, FALSE, 0, "")
  /\ UNCHANGED <<core, memory, display, state, draw_flag, cycle_counter>>

SpecAccum == InitAccum /\ [][AccumTick]_vars

(* ------------------------------ properties ----------------------------- *)

\* the machine apart from the front-end and the record of the last call
machine == <<memory, display, state, draw_flag, cycle_counter>>

WaitPending == state.waiting_for_key_reg # NoReg

\* the memory holds the font table at 0x050..0x09F and zeros elsewhere
FontOnly(mem) == mem.nz = ResetMemory.nz

RegistersCleared ==
  /\ \A i \in 0..15 : state.V[i] = 0
  /\ state.I = 0
  /\ state.sp = 0
  /\ state.delay_timer = 0
  /\ state.sound_timer = 0
  /\ state.pc = START_ADDR
  /\ ~WaitPending

\* C1: after reset(), from any reachable state, all V registers, I, sp and
\* both timers are 0, pc is 0x200, no key wait is pending, memory holds the
\* font table at 0x050..0x09F and zeros elsewhere, the display is blank and
\* drawFlag is true.
C1_ResetPostcondition ==
  last.op = "reset" =>
    /\ RegistersCleared
    /\ FontOnly(memory)
    /\ display = BlankDisplay
    /\ draw_flag = TRUE

\* the ROM file of the last load, and whether it fits above 0x200
LoadedRom == RomsOf(core)[last.rom]
FitsMemory(rom) == ByteLen(rom) <= MEM_SIZE - START_ADDR

\* C2: a ROM of exactly 3584 bytes is loaded without error (its last byte
\* lands at 0xFFF); a ROM of 3585 bytes or more is refused with an error and
\* the machine, instruction counter included, is exactly as before the call.
\* (Chip8.load_rom_bytes of emuchi and gbaclassic.)
C2_LoadRomSizeLimit ==
  [][ (IsChip8(core) /\ last'.op = "load_rom") =>
        LET rom == RomsOf(core)[last'.rom]
            n == ByteLen(rom)
        IN /\ n <= 3584 =>
                /\ last'.exc = ""
                /\ ByteLen(memory') = MEM_SIZE
                /\ \A i \in DOMAIN rom.nz :
                     Mem(memory', START_ADDR + i) = rom.nz[i]
           /\ n >= 3585 =>
                /\ last'.exc = "ValueError"
                /\ UNCHANGED machine ]_vars

\* a 3585-byte ROM was refused by a machine that had run a program
C2_Witness ==
  /\ IsChip8(core)
  /\ last.op = "load_rom"
  /\ last.exc = "ValueError"
  /\ ByteLen(LoadedRom) = 3585
  /\ state.V[10] = 2
  /\ Mem(memory, START_ADDR) = 106

\* C3: after a successful loadRom(bytes) from any prior state, memory holds
\* bytes at 0x200.., the font table, and zeros elsewhere, and the rest of
\* the machine is freshly reset (registers and timers 0, pc 0x200, no wait).
\* Stated for the ROMs that fit above 0x200.
C3_LoadIsResetPlusRom ==
  (last.op = "load_rom" /\ last.exc = "" /\ FitsMemory(LoadedRom)) =>
    /\ RegistersCleared
    /\ memory = SliceAssign(ResetMemory, START_ADDR, LoadedRom)
    /\ display = BlankDisplay

\* C4: in every reachable state the memory is exactly 4096 bytes long.
C4_MemoryLength == ByteLen(memory) = MEM_SIZE

\* C5: step() never raises, from any reachable state.
C5_StepNeverRaises == last.op = "cycle" => last.exc = ""

\* C6: pc and I are in 0x000..0xFFF, every V register and both timers are
\* in 0..255, and every stack entry is in 0x000..0xFFF, in every reachable
\* state.
C6_ValueRanges ==
  /\ state.pc \in 0..4095
  /\ state.I \in 0..4095
  /\ \A i \in 0..15 : state.V[i] \in 0..255
  /\ state.delay_timer \in 0..255
  /\ state.sound_timer \in 0..255
  /\ \A i \in 0..15 : state.stack[i] \in 0..4095

\* the instruction in the last two bytes of memory was executed and pc
\* wrapped from 0xFFE to 0
C6_Witness ==
  /\ last.op = "cycle"
  /\ last.exc = ""
  /\ state.V[11] = 1
  /\ state.pc = 0
  /\ cycle_counter = 2

\* C7: while a key wait is pending every step() is a complete no-op: pc, the
\* instruction counter, V, I, sp, stack, memory, display, drawFlag, timers
\* and the wait itself are unchanged, for any number of consecutive calls.
C7_StepWhileWaitingIsNoOp ==
  [][ (WaitPending /\ last'.op = "cycle") =>
        /\ UNCHANGED machine
        /\ last'.exc = "" ]_vars

\* a step was called while the wait for V3 was pending, timers running
C7_Witness ==
  /\ last.op = "cycle"
  /\ last.waited
  /\ state.waiting_for_key_reg = 3
  /\ state.delay_timer = 2

\* C8: with a wait for register r pending, setKey(k, true), k in 0..15, sets
\* V[r] = k, clears the wait and leaves pc unchanged; setKey(k, false) never
\* clears a pending wait and never writes a V register.
C8_KeyLatch ==
  [][ last'.op = "press_key" =>
        /\ (WaitPending /\ last'.pressed /\ last'.key \in 0..15) =>
             /\ state'.V = [state.V EXCEPT
                              ![state.waiting_for_key_reg] = last'.key]
             /\ state'.waiting_for_key_reg = NoReg
             /\ state'.pc = state.pc
        /\ ~last'.pressed =>
             /\ state'.waiting_for_key_reg = state.waiting_for_key_reg
             /\ state'.V = state.V ]_vars

\* key 7 was pressed during the wait for V3 and latched
C8_Witness ==
  /\ last.op = "press_key"
  /\ last.pressed
  /\ last.key = 7
  /\ last.waited
  /\ state.V[3] = 7
  /\ ~WaitPending

\* the instruction a step is about to execute
Fetched == Mem(memory, state.pc) * 256 + Mem(memory, state.pc + 1)
IsFx(op, kk) == op \div 4096 = 15 /\ op % 256 = kk

\* C9 as stated: a step() leaves delayTimer and soundTimer unchanged.
C9_StepKeepsTimers ==
  [][ last'.op = "cycle" =>
        /\ state'.delay_timer = state.delay_timer
        /\ state'.sound_timer = state.sound_timer ]_vars

\* C9, amended: a step() never decrements a timer; it leaves delayTimer and
\* soundTimer unchanged unless the instruction it executes is Fx15, which
\* sets delayTimer to V[x], or Fx18, which sets soundTimer to V[x].
C9_StepSetsTimersOnlyByFx15Fx18 ==
  [][ last'.op = "cycle" =>
        LET ran == ~WaitPending /\ last'.exc # "IndexError"
            x == (Fetched \div 256) % 16
        IN /\ state'.delay_timer =
                IF ran /\ IsFx(Fetched, 21) THEN state.V[x]
                ELSE state.delay_timer
           /\ state'.sound_timer =
                IF ran /\ IsFx(Fetched, 24) THEN state.V[x]
                ELSE state.sound_timer ]_vars

\* an instruction other than Fx15/Fx18 (Annn) ran with both timers at 2
C9_Witness ==
  /\ last.op = "cycle"
  /\ ~last.waited
  /\ state.pc = 520
  /\ state.I = 80
  /\ state.delay_timer = 2
  /\ state.sound_timer = 2

\* C10: tickTimers() decrements each timer by exactly 1 if it is positive
\* and leaves it at 0 otherwise, independently, and changes nothing else;
\* also while a key wait is pending.
C10_TickTimers ==
  [][ last'.op = "tick_timers" =>
        /\ state'.delay_timer =
             IF state.delay_timer > 0 THEN state.delay_timer - 1 ELSE 0
        /\ state'.sound_timer =
             IF state.sound_timer > 0 THEN state.sound_timer - 1 ELSE 0
        /\ state' = [state EXCEPT !.delay_timer = state'.delay_timer,
                                  !.sound_timer = state'.sound_timer]
        /\ UNCHANGED <<memory, display, draw_flag, cycle_counter>> ]_vars

\* a tick during a key wait left delayTimer at 0 and soundTimer at 1
C10_Witness ==
  /\ last.op = "tick_timers"
  /\ last.waited
  /\ WaitPending
  /\ state.delay_timer = 0
  /\ state.sound_timer = 1

\* fields of an instruction word
OpHigh(op) == op \div 4096
OpX(op) == (op \div 256) % 16
OpY(op) == (op \div 16) % 16
OpN(op) == op % 16
OpKK(op) == op % 256

\* a step now would fetch and execute an instruction
CanFetch == ~WaitPending /\ state.pc + 1 < ByteLen(memory)

\* the instruction after the one at pc
FetchedNext == Mem(memory, state.pc + 2) * 256 + Mem(memory, state.pc + 3)

\* the sprite rows a Dxyn at pc would read
SpriteRows(n) == {Mem(memory, Mask12(state.I + row)) : row \in 0..(n - 1)}

\* C11: executing the same Dxyn (x, y different from 0xF) twice in a row
\* restores the display to what it was before the first draw; on a blank
\* display the first draw sets V[0xF] = 0 and the second sets V[0xF] = 1
\* whenever the sprite has a set bit.
C11_DrawTwiceRestores ==
  (/\ CanFetch
   /\ OpHigh(Fetched) = 13
   /\ FetchedNext = Fetched
   /\ OpX(Fetched) # 15
   /\ OpY(Fetched) # 15) =>
    LET first == cycle(core, chip, 0).chip
        second == cycle(core, first, 0).chip
    IN /\ second.display = display
       /\ display = BlankDisplay =>
            /\ first.state.V[15] = 0
            /\ (SpriteRows(OpN(Fetched)) \ {0} # {}) =>
                 second.state.V[15] = 1

\* the second of two equal draws at (63, 31) has run on a display that held
\* another sprite: the display is that sprite again and V[0xF] = 1
C11_Witness ==
  /\ last.op = "cycle"
  /\ state.pc = 524
  /\ state.V[1] = 63
  /\ state.V[2] = 31
  /\ Mem(memory, 519) = 68
  /\ Mem(memory, 521) = 33
  /\ state.V[15] = 1
  /\ display = {<<0, c>> : c \in 0..7} \cup {<<1, 0>>, <<1, 7>>}
                 \cup {<<3, c>> : c \in 2..5}

\* C12: after any Dxyn, V[0xF] is 1 if and only if at least one pixel went
\* from 1 to 0 during that draw and 0 otherwise, whatever it held before;
\* drawFlag is true after the draw, also for n = 0 or an all-zero sprite.
C12_CollisionFlag ==
  [][ (last'.op = "cycle" /\ CanFetch /\ OpHigh(Fetched) = 13) =>
        /\ state'.V[15] = IF display \ display' # {} THEN 1 ELSE 0
        /\ draw_flag' = TRUE ]_vars

\* the third draw of a program found V[0xF] = 1 from the second, which had
\* erased row 0 of the first sprite; it lit the row again and left V[0xF] = 0
C12_Witness ==
  /\ last.op = "cycle"
  /\ state.pc = 524
  /\ state.V[1] = 0
  /\ state.V[2] = 0
  /\ Mem(memory, 519) = 68
  /\ Mem(memory, 521) = 33
  /\ state.V[15] = 0
  /\ <<0, 0>> \in display

\* the pixels <<row, column>> under the set bits of the sprite a Dxyn at pc
\* would draw, bit b counted from the most significant bit
SpritePixels ==
  LET vx == state.V[OpX(Fetched)]
      vy == state.V[OpY(Fetched)]
      set == {rb \in (0..(OpN(Fetched) - 1)) \X (0..7) :
                (Mem(memory, Mask12(state.I + rb[1])) \div Pow2(7 - rb[2]))
                  % 2 = 1}
  IN {<<(vy + rb[1]) % 32, (vx + rb[2]) % 64>> : rb \in set}

\* C13: Dxyn toggles exactly the pixels ((V[x]+b) mod 64, (V[y]+row) mod 32)
\* whose sprite bit b (from the most significant) of row `row` is 1, and no
\* other pixel; coordinates wrap and stay inside the 64x32 grid.
C13_DrawPixels ==
  [][ (last'.op = "cycle" /\ CanFetch /\ OpHigh(Fetched) = 13) =>
        /\ display' = (display \ SpritePixels) \cup (SpritePixels \ display)
        /\ display' \subseteq (0..31) \X (0..63) ]_vars

\* an 8-pixel row drawn at (63, 31) on a blank display: columns 63, 0..6 of
\* row 31
C13_Witness ==
  /\ last.op = "cycle"
  /\ state.pc = 522
  /\ state.V[1] = 63
  /\ state.V[2] = 31
  /\ Mem(memory, 519) = 64
  /\ Mem(memory, 521) = 33
  /\ display = {<<31, 63>>} \cup {<<31, c>> : c \in 0..6}

\* the operand registers of the instruction at pc, before it runs
Vx == state.V[OpX(Fetched)]
Vy == state.V[OpY(Fetched)]

\* a step executes an instruction of the 8xy* family with last nibble n,
\* x not 0xF
Runs8(n) ==
  /\ last'.op = "cycle"
  /\ CanFetch
  /\ OpHigh(Fetched) = 8
  /\ OpN(Fetched) = n
  /\ OpX(Fetched) # 15

C15_Shifts ==
  [][ /\ Runs8(6) =>
           /\ state'.V[15] = Vx % 2
           /\ state'.V[OpX(Fetched)] = Vx \div 2
      /\ Runs8(14) =>
           /\ state'.V[15] = Vx \div 128
           /\ state'.V[OpX(Fetched)] = (Vx * 2) % 256 ]_vars

\* a step executes the instruction Fxkk
RunsF(kk) ==
  /\ last'.op = "cycle"
  /\ CanFetch
  /\ IsFx(Fetched, kk)

\* C16: Fx33 writes the hundreds, tens and units digits of V[x] to
\* memory[I], memory[I+1], memory[I+2]: each byte is in 0..9 and
\* 100*memory[I] + 10*memory[I+1] + memory[I+2] = V[x]; I and all registers
\* are unchanged.  (Chip8.cycle of emuchi and gbaclassic, I + 2 <= 0xFFF.)
C16_Bcd ==
  [][ (RunsF(51) /\ IsChip8(core) /\ state.I + 2 <= 4095) =>
        LET b2 == Mem(memory', state.I)
            b1 == Mem(memory', state.I + 1)
            b0 == Mem(memory', state.I + 2)
        IN /\ last'.exc = ""
           /\ {b2, b1, b0} \subseteq 0..9
           /\ 100 * b2 + 10 * b1 + b0 = Vx
           /\ state'.I = state.I
           /\ state'.V = state.V ]_vars

\* C17: Fx55 then, with I restored, Fx65 with the same x reproduces the
\* original V[0..x], whatever the registers held in between; each of the two
\* advances I by x + 1 (masked to 12 bits) and leaves V[x+1..15] unchanged.
\* (Chip8.cycle of emuchi and gbaclassic.  The round trip is that of the
\* programs above: V0, V1 come back as the bytes at 0x201 and 0x203.)
C17_StoreLoadRoundTrip ==
  [][ /\ (RunsF(85) /\ IsChip8(core)) =>
           /\ \A i \in 0..OpX(Fetched) :
                Mem(memory', (state.I + i) % 4096) = state.V[i]
           /\ state'.I = (state.I + OpX(Fetched) + 1) % 4096
           /\ state'.V = state.V
      /\ (RunsF(101) /\ IsChip8(core)) =>
           /\ \A i \in 0..OpX(Fetched) :
                state'.V[i] = Mem(memory, (state.I + i) % 4096)
           /\ \A i \in (OpX(Fetched) + 1)..15 : state'.V[i] = state.V[i]
           /\ state'.I = (state.I + OpX(Fetched) + 1) % 4096
           /\ (state.pc = 528 /\ cycle_counter = 8
               /\ Mem(memory, 520) = 241 /\ Mem(memory, 521) = 85) =>
                /\ state'.V[0] = Mem(memory, 513)
                /\ state'.V[1] = Mem(memory, 515) ]_vars

\* V0 = 7 and V1 = 255 were stored at 0xFFF and 0x000, overwritten with
\* 0xAA and 0x55, and loaded back; V3 kept its 9 and I advanced to 1
C17_Witness ==
  /\ IsChip8(core)
  /\ last.op = "cycle"
  /\ state.pc = 530
  /\ Mem(memory, 528) = 241
  /\ Mem(memory, 529) = 101
  /\ Mem(memory, 4095) = 7
  /\ Mem(memory, 0) = 255
  /\ state.V[0] = 7
  /\ state.V[1] = 255
  /\ state.V[3] = 9
  /\ state.I = 1

\* an instruction with the given high nibble is fetched and executed
RunsHigh(h) ==
  /\ last'.op = "cycle"
  /\ CanFetch
  /\ OpHigh(Fetched) = h

\* C18: the call stack is a 16-slot ring.  sp is always in 0..15; a 2nnn
\* stores the return address in stack[sp], advances sp modulo 16 and raises
\* no error, so that the 17th nested call overwrites slot 0; a 00EE with
\* sp = 0 sets sp to 15 and pc to the value in stack[15].
C18_StackRing ==
  [][ /\ state.sp \in 0..15
      /\ state'.sp \in 0..15
      /\ RunsHigh(2) =>
           /\ last'.exc = ""
           /\ state'.stack = [state.stack EXCEPT ![state.sp] = state.pc + 2]
           /\ state'.sp = (state.sp + 1) % 16
           /\ state'.pc = Fetched % 4096
      /\ (RunsHigh(0) /\ Fetched = 238 /\ state.sp = 0) =>
           /\ last'.exc = ""
           /\ state'.sp = 15
           /\ state'.pc = state.stack[15]
           /\ state'.stack = state.stack ]_vars

\* the 17th nested call has run without an error: slot 0, which held the
\* first return address 0x202, now holds 0x206, and sp is 1
C18_Witness ==
  /\ last.op = "cycle"
  /\ last.exc = ""
  /\ cycle_counter = 17
  /\ state.pc = 516
  /\ state.sp = 1
  /\ state.stack[0] = 518
  /\ state.stack[15] = 518
  /\ Mem(memory, 512) = 34
  /\ Mem(memory, 513) = 4

\* C19: the font bytes at 0x050..0x09F are never overwritten by any
\* instruction, Fx33 and Fx55 with I pointing into that range included.
C19_FontReadOnly ==
  [][ last'.op = "cycle" =>
        \A a \in FONT_ADDR..(FONT_ADDR + 79) :
          Mem(memory', a) = Mem(memory, a) ]_vars

\* C20: on every 60 Hz driver tick while the emulation is running, the
\* driver first issues that tick's step() calls and then invokes the timer
\* decrement exactly once, whatever the speed setting; on a tick while paused
\* it issues no step() and no timer decrement.
C20_TickStepsThenTimersOnce ==
  [][ last'.op = "tick" =>
        IF driver.running
        THEN driver'.timer_ticks = 1
        ELSE /\ driver'.steps = 0
             /\ driver'.timer_ticks = 0
             /\ state' = state ]_vars

\* C21: with a constant cyclesPerSecond c and the accumulator starting at 0,
\* the number of step() calls issued over the first k running ticks is
\* exactly floor(k * c / 60) for every k (so 60 ticks issue exactly c
\* steps), and the carried remainder is at least 0 and less than 1.
C21_StepsOverTicks ==
  /\ driver.issued = (driver.ticks * driver.cycles_per_second) \div 60
  /\ driver.cycle_accum.int = 0

\* C22: whenever the display contents differ from what the presentation
\* layer last redrew, drawFlag is true: every 00E0 and every Dxyn sets it,
\* reset sets it, and only the presentation layer (the end of a tick, the
\* redraw of a single step or of a reset) clears it, and only at the moment
\* it redraws the current display.
C22_DrawFlagCoversDisplay ==
  [][ /\ display # driver.shown => draw_flag
      /\ display' # driver'.shown => draw_flag'
      /\ (CanFetch /\ (Fetched = 224 \/ OpHigh(Fetched) = 13)) =>
           cycle(core, chip, 0).chip.draw_flag
      /\ reset(core, chip).draw_flag
      /\ (draw_flag /\ ~draw_flag') =>
           /\ last'.op \in {"tick", "step", "reset"}
           /\ driver'.shown = display' ]_vars

\* a ROM was opened while the window still shows the glyph drawn by the
\* program before: the display is blank again and draw_flag is set
C22_Witness ==
  /\ last.op = "load_rom"
  /\ last.exc = ""
  /\ display = BlankDisplay
  /\ driver.shown # BlankDisplay
  /\ draw_flag

\* the opcode is outside the instruction table
IsUndefined(op) ==
  \/ OpHigh(op) = 0 /\ op \notin {224, 238}
  \/ OpHigh(op) = 8 /\ OpN(op) \in (8..13) \cup {15}
  \/ OpHigh(op) \in {5, 9} /\ OpN(op) # 0
  \/ OpHigh(op) = 14 /\ OpKK(op) \notin {158, 161}
  \/ OpHigh(op) = 15 /\ OpKK(op) \notin {7, 10, 21, 24, 30, 41, 51, 85, 101}

\* C24: every opcode outside the defined table is a no-op: it advances pc
\* by 2 (masked to 12 bits), counts as one executed instruction, and leaves
\* V, I, sp, the stack, memory, timers, display, drawFlag and the key wait
\* unchanged.
C24_UndefinedIsNoOp ==
  [][ (last'.op = "cycle" /\ CanFetch /\ IsUndefined(Fetched)) =>
        /\ last'.exc = ""
        /\ state' = [state EXCEPT !.pc = (state.pc + 2) % 4096]
        /\ cycle_counter' = cycle_counter + 1
        /\ UNCHANGED <<memory, display, draw_flag>> ]_vars

\* E1A2 has run with no key down: pc went from 0x208 to 0x20A only
C24_Witness ==
  /\ last.op = "cycle"
  /\ last.exc = ""
  /\ Mem(memory, 520) = 225
  /\ Mem(memory, 521) = 162
  /\ state.pc = 522
  /\ state.V[1] = 3
  /\ cycle_counter = 5

\* what the three copies are compared on: pc, V, I, sp, the stack, the
\* timers, the keys and the wait (all in state), memory and the display
Observed(c) == <<c.state, c.memory, c.display>>

\* C23: the three copies of the CHIP-8 core are behaviourally identical:
\* started from reset and given the same ROM and the same sequence of step,
\* key and timer operations (programs without Cxkk), they reach the same pc,
\* V, I, sp, stack, memory, timers, wait state and display after every
\* operation.  (Stated one operation at a time: from every state reached,
\* the same step or key event has the same outcome in the three copies.)
C23_CopiesAgree ==
  /\ (OpHigh(Fetched) # 12) =>
       /\ Observed(cycle("emuchi", chip, 0).chip)
            = Observed(cycle("gbaclassic", chip, 0).chip)
       /\ Observed(cycle("emuchi", chip, 0).chip)
            = Observed(cycle("samsoftv0", chip, 0).chip)
  /\ \A key \in 0..15, pressed \in BOOLEAN :
       /\ press_key("emuchi", state, key, pressed)
            = press_key("gbaclassic", state, key, pressed)
       /\ press_key("emuchi", state, key, pressed)
            = press_key("samsoftv0", state, key, pressed)

\* C25: a single-step request executes exactly one step() whether the
\* emulation is running or paused, does not change the per-tick cycle
\* accumulator, and does not decrement either timer.
C25_SingleStep ==
  [][ last'.op = "step" =>
        /\ cycle_counter' =
             IF CanFetch THEN cycle_counter + 1 ELSE cycle_counter
        /\ WaitPending => state' = state
        /\ CanFetch =>
             state'.pc \in {(state.pc + 2) % 4096, (state.pc + 4) % 4096,
                            Fetched % 4096}
        /\ driver'.cycle_accum = driver.cycle_accum
        /\ driver'.running = driver.running
        /\ driver'.ticks = driver.ticks
        /\ ~(CanFetch /\ IsFx(Fetched, 21)) =>
             state'.delay_timer = state.delay_timer
        /\ ~(CanFetch /\ IsFx(Fetched, 24)) =>
             state'.sound_timer = state.sound_timer ]_vars

\* a single step while running, after one tick of the loop program: the
\* twelfth instruction has run, the timers are still at 2 and the
\* accumulator still holds the remainder of the tick
C25_Witness ==
  /\ last.op = "step"
  /\ last.exc = ""
  /\ driver.running
  /\ driver.ticks = 1
  /\ driver.cycle_accum # FloatZero
  /\ cycle_counter = 12
  /\ state.delay_timer = 2
  /\ state.sound_timer = 2

\* C26: calls and returns are LIFO up to depth 16: after a 2nnn fetched at
\* address a, when the subroutine body executes only balanced 2nnn/00EE
\* pairs nested at most 15 deep, the matching 00EE sets pc = (a + 2) & 0xFFF
\* and restores sp to its value before the call.
C26_CallsAreLifo ==
  [][ (RunsHigh(0) /\ Fetched = 238
       /\ last.calls # << >> /\ Len(last.calls) <= 16) =>
        LET call == last.calls[Len(last.calls)]
        IN /\ state'.pc = (call.a + 2) % 4096
           /\ state'.sp = call.sp ]_vars

\* the outermost of sixteen nested calls, made at 0x200 with sp = 0, has
\* returned to 0x202 after the fifteen pairs inside it
C26_Witness ==
  /\ last.op = "cycle"
  /\ last.calls = << >>
  /\ cycle_counter = 32
  /\ state.pc = 514
  /\ state.sp = 0
  /\ state.stack[15] = 574
  /\ Mem(memory, 576) = 0
  /\ Mem(memory, 577) = 238

\* C27: once Fx0A has set a key wait, the machine stays stalled (pc and
\* the instruction counter never change) for as long as no key-press event,
\* reset or ROM load occurs, however many driver ticks pass; and when a
\* key-press event for a key in 0..15 arrives, the wait is cleared and a
\* later step() advances pc again (it executes the instruction at pc,
\* which the instruction counter shows).
C27_StallUntilKey ==
  [][ /\ (WaitPending /\ last'.op \notin {"press_key", "reset", "load_rom"})
           => /\ state'.waiting_for_key_reg = state.waiting_for_key_reg
              /\ state'.pc = state.pc
              /\ cycle_counter' = cycle_counter
      /\ (WaitPending /\ last'.op = "press_key"
          /\ ~(last'.pressed /\ last'.key \in 0..15))
           => /\ state'.waiting_for_key_reg = state.waiting_for_key_reg
              /\ state'.pc = state.pc
              /\ cycle_counter' = cycle_counter
      /\ (WaitPending /\ last'.op = "press_key"
          /\ last'.pressed /\ last'.key \in 0..15)
           => /\ state'.waiting_for_key_reg = NoReg
              /\ state'.V[state.waiting_for_key_reg] = last'.key
              /\ cycle(core, chip, 0).chip = chip
              /\ cycle(core, chip', 0).chip.cycle_counter
                   = cycle_counter' + 1 ]_vars

\* the program waited into V0 over two ticks, key 7 arrived, and the third
\* tick ran on: the screen was cleared and the glyph drawn at (7, 7)
C27_Witness ==
  /\ last.op = "tick"
  /\ last.exc = ""
  /\ driver.ticks = 3
  /\ Mem(memory, 516) = 240
  /\ Mem(memory, 517) = 10
  /\ ~WaitPending
  /\ state.V[0] = 7
  /\ state.pc = 522
  /\ <<7, 7>> \in display

\* C28: reset() can be called in any reachable state, including while a key
\* wait is pending or in the middle of a driver run, and always ends the
\* stall: after it no wait is pending and the next step() fetches from
\* 0x200.  This holds for the reset reached through every front-end's Reset
\* action.
C28_ResetEndsStall ==
  [][ last'.op = "reset" =>
        /\ ~WaitPending'
        /\ state'.pc = START_ADDR
        /\ cycle(core, chip', 0).chip.state.pc # START_ADDR ]_vars

\* C29: a key that is already held down when Fx0A executes does not resolve
\* the wait: keys[k] being true has no effect on a pending wait (the step
\* that executes Fx0A sets the wait whatever keys are down, and steps and
\* timer ticks during the wait change nothing of the state), and only a
\* setKey(k, true) event delivered after the wait was set latches a value; a
\* repeated setKey(k, true) for a key that is already down does resolve it.
C29_HeldKeyDoesNotResolve ==
  [][ /\ (last'.op = "cycle" /\ last'.exc = "" /\ ~WaitPending
            /\ Mem(memory, state.pc) \div 16 = 15
            /\ Mem(memory, state.pc + 1) = 10)
          => /\ state'.waiting_for_key_reg = Mem(memory, state.pc) % 16
             /\ state'.V = state.V
             /\ state'.keys = state.keys
      /\ (last'.op = "cycle" /\ WaitPending) => state' = state
      /\ (last'.op = "tick_timers" /\ WaitPending)
          => /\ state'.waiting_for_key_reg = state.waiting_for_key_reg
             /\ state'.V = state.V
      /\ (last'.op = "press_key" /\ last'.pressed /\ last'.key \in 0..15
            /\ WaitPending /\ state.keys[last'.key])
          => /\ state'.waiting_for_key_reg = NoReg
             /\ state'.V = [state.V EXCEPT
                              ![state.waiting_for_key_reg] = last'.key] ]_vars

\* key 7 went down before Fx0A executed, and steps were taken since: the
\* wait for V3 is still pending and V3 holds no key
C29_Witness ==
  /\ state.keys[7]
  /\ state.waiting_for_key_reg = 3
  /\ state.V[3] = 0
  /\ last.op = "cycle"
  /\ last.waited

\* a step executes 8xy5 or 8xy7 (last nibble n), x or y possibly 0xF
RunsSub(n) ==
  /\ last'.op = "cycle"
  /\ CanFetch
  /\ OpHigh(Fetched) = 8
  /\ OpN(Fetched) = n

\* what a subtraction a - b of registers leaves, the flag being written to
\* V[0xF] before the operands are read: registers x and 0xF after it
SubAfter(x, a, b) ==
  LET flag == IF state.V[a] >= state.V[b] THEN 1 ELSE 0
      va == IF a = 15 THEN flag ELSE state.V[a]
      vb == IF b = 15 THEN flag ELSE state.V[b]
      diff == (va - vb + 256) % 256
  IN /\ state'.V[x] = diff
     /\ state'.V[15] = IF x = 15 THEN diff ELSE flag
     /\ \A i \in 0..14 : i # x => state'.V[i] = state.V[i]

\* C30: in 8xy5 and 8xy7 the flag is written to V[0xF] before the
\* subtraction reads its operands.  For x, y different from 0xF the result is
\* (old Vx - old Vy) mod 256 (resp. old Vy - old Vx) with V[0xF] = 1 iff no
\* borrow; when y = 0xF (x different from 0xF) the subtraction uses the newly
\* written flag in place of the old V[0xF]; when x = 0xF the final V[0xF] is
\* the subtraction result computed from the flag, not the flag.  (8xy5 in
\* every copy, 8xy7 in Chip8.cycle of emuchi and gbaclassic.)
C30_FlagBeforeSubtract ==
  [][ /\ RunsSub(5) => SubAfter(OpX(Fetched), OpX(Fetched), OpY(Fetched))
      /\ (RunsSub(7) /\ IsChip8(core))
           => SubAfter(OpX(Fetched), OpY(Fetched), OpX(Fetched))
      /\ (RunsSub(5) \/ (RunsSub(7) /\ IsChip8(core)))
           => /\ OpX(Fetched) # 15 /\ OpY(Fetched) # 15
                => /\ state'.V[OpX(Fetched)] =
                        IF OpN(Fetched) = 5 THEN (Vx - Vy + 256) % 256
                        ELSE (Vy - Vx + 256) % 256
                   /\ state'.V[15] =
                        IF OpN(Fetched) = 5
                        THEN (IF Vx >= Vy THEN 1 ELSE 0)
                        ELSE (IF Vy >= Vx THEN 1 ELSE 0) ]_vars

\* 8F27 has run with V[0xF] = 3, V2 = 1: the flag written first is 0
\* (1 < 3) and the difference V2 - V[0xF] is taken from it: V[0xF] = 1 - 0,
\* where the old values give 254 and the flag alone gives 0
C30_Witness ==
  /\ last.op = "cycle"
  /\ IsChip8(core)
  /\ state.pc = 518
  /\ Mem(memory, 513) = 3
  /\ Mem(memory, 515) = 1
  /\ Mem(memory, 516) = 143
  /\ Mem(memory, 517) = 39
  /\ state.V[2] = 1
  /\ state.V[15] = 1

====
